---- MODULE Spec2Model ----
(***************************************************************************)
(* Amareth (zodiac) calendar: the ingress oracle, the year-keyed ingress   *)
(* cache file and the Gregorian <-> zodiac converter built on them.        *)
(*                                                                         *)
(* A date is its proleptic Gregorian ordinal (datetime.date), a datetime   *)
(* is [ord, min] (UTC civil day and minute of that day), an ISO string is  *)
(* the record of its printed fields.                                       *)
(***************************************************************************)
EXTENDS Integers, Sequences, FiniteSets, TLC

VARIABLES shift, cacheFile, calls, op

vars == <<shift, cacheFile, calls, op>>

(***************************************************************************)
(* Bounds of the model.                                                    *)
(***************************************************************************)
\* number of Gregorian years whose civil days are converted
MaxYears == 1
\* the ephemeris is shifted by -MaxShift..MaxShift steps of ShiftStep minutes
MaxShift == 1
\* zodiac days tried run from -MaxDayBelow to MaxDay
MaxDayBelow == 1
MaxDay == 33
\* months tried run from 1 - MaxMonthOut to 12 + MaxMonthOut
MaxMonthOut == 1
\* cap on the oracle invocations counted per year
MaxCalls == 2

(***************************************************************************)
(* calendar.py                                                             *)
(***************************************************************************)
AMARETH_EPOCH == 2025

from_amareth(amareth_year) == amareth_year + AMARETH_EPOCH

\* the sign table: index i starts at longitude 30 * i
ZODIAC_SIGNS == [i \in 1..12 |-> [index |-> i - 1, longitude_start |-> 30 * (i - 1)]]

ZodiacDate(y, m, d) == [year |-> y, month |-> m, day |-> d]

(***************************************************************************)
(* datetime.date / datetime.datetime as the converter uses them            *)
(***************************************************************************)
IsLeap(y) == y % 4 = 0 /\ (y % 100 # 0 \/ y % 400 = 0)

DaysBeforeYear(y) ==
    LET p == y - 1 IN p * 365 + (p \div 4) - (p \div 100) + (p \div 400)

DAYS_IN_MONTH == <<31, 28, 31, 30, 31, 30, 31, 31, 30, 31, 30, 31>>

DAYS_BEFORE_MONTH == <<0, 31, 59, 90, 120, 151, 181, 212, 243, 273, 304, 334>>

DaysInMonth(y, m) == IF m = 2 /\ IsLeap(y) THEN 29 ELSE DAYS_IN_MONTH[m]

DaysBeforeMonth(y, m) ==
    DAYS_BEFORE_MONTH[m] + (IF m > 2 /\ IsLeap(y) THEN 1 ELSE 0)

\* date(y, m, d).toordinal()
ymd2ord(y, m, d) == DaysBeforeYear(y) + DaysBeforeMonth(y, m) + d

\* date.fromordinal(n) as [year, month, day]
ord2ymd(n) ==
    LET n0   == n - 1
        n400 == n0 \div 146097
        r400 == n0 % 146097
        n100 == r400 \div 36524
        r100 == r400 % 36524
        n4   == r100 \div 1461
        r4   == r100 % 1461
        n1   == r4 \div 365
        r1   == r4 % 365
        year == n400 * 400 + 1 + n100 * 100 + n4 * 4 + n1
    IN  IF n1 = 4 \/ n100 = 4
        THEN [year |-> year - 1, month |-> 12, day |-> 31]
        ELSE LET guess == (r1 + 50) \div 32
                 month == IF DaysBeforeMonth(year, guess) > r1 THEN guess - 1 ELSE guess
             IN  [year |-> year, month |-> month,
                  day |-> r1 - DaysBeforeMonth(year, month) + 1]

\* greg_date.year
YearOf(d) == ord2ymd(d).year

\* datetime.isoformat(): the printed fields of a UTC datetime
isoformat(dt) ==
    LET c == ord2ymd(dt.ord)
    IN  [year |-> c.year, month |-> c.month, day |-> c.day,
         hour |-> dt.min \div 60, minute |-> dt.min % 60]

\* datetime.fromisoformat()
fromisoformat(s) ==
    [ord |-> ymd2ord(s.year, s.month, s.day), min |-> s.hour * 60 + s.minute]

\* datetime.date()
DateOfDt(dt) == dt.ord

\* str(year): the decimal digits used as the key of the JSON object
RECURSIVE Digits(_)
Digits(n) == IF n < 10 THEN <<n>> ELSE Append(Digits(n \div 10), n % 10)

str(year) == IF year < 0 THEN <<"-">> \o Digits(0 - year) ELSE Digits(year)

(***************************************************************************)
(* The ephemeris: the instants at which the Sun changes sign.  Sign k of   *)
(* zodiac year 2026 + c is entered one tropical year after sign k of year  *)
(* 2026 + c - 1; the whole timeline is moved by the unknown `shift`.       *)
(***************************************************************************)
ShiftStep == 9 * 60 + 15

TropicalYear == 365 * 1440 + 5 * 60 + 49

\* UTC date and time of the twelve ingresses of zodiac year 2026
INGRESSES_2026 ==
    << <<2026, 3, 20, 14, 45>>, <<2026, 4, 20, 1, 39>>, <<2026, 5, 21, 0, 36>>,
       <<2026, 6, 21, 8, 24>>,  <<2026, 7, 22, 19, 13>>, <<2026, 8, 23, 2, 18>>,
       <<2026, 9, 23, 0, 5>>,   <<2026, 10, 23, 9, 37>>, <<2026, 11, 22, 7, 23>>,
       <<2026, 12, 21, 20, 50>>, <<2027, 1, 20, 7, 29>>, <<2027, 2, 18, 21, 33>> >>

EpochOrd == ymd2ord(2026, 1, 1)

\* minutes since 2026-01-01T00:00 of a datetime, and back
MinutesOf(dt) == (dt.ord - EpochOrd) * 1440 + dt.min

DtOfMinutes(m) == [ord |-> EpochOrd + (m \div 1440), min |-> m % 1440]

\* minutes since the epoch of the twelve ingresses of zodiac year 2026
Ingress2026Minutes ==
    [k \in 1..12 |->
        LET e == INGRESSES_2026[k]
        IN  MinutesOf(fromisoformat([year |-> e[1], month |-> e[2], day |-> e[3],
                                     hour |-> e[4], minute |-> e[5]]))]

\* the n-th sign change counted from the Aries ingress of 2026 (n = 0)
IngressInstant(sh, n) ==
    Ingress2026Minutes[(n % 12) + 1] + (n \div 12) * TropicalYear + sh

\* the single element of a singleton set: The({e(x) : x \in {v}}) is e with
\* x naming the value of v
The(S) == CHOOSE v \in S : TRUE

\* almanac.find_discrete(t0, t1, zodiac_sign_at): every sign change in the
\* window, in chronological order, with the sign entered
find_discrete(sh, t0, t1) ==
    LET first == ((t0 - sh) \div TropicalYear - 1) * 12
        last  == ((t1 - sh) \div TropicalYear + 1) * 12
    IN  The({ IF cand = {} THEN << >>
              ELSE The({ [i \in 1..Cardinality(cand) |->
                            [t |-> DtOfMinutes(IngressInstant(sh, lo + i - 1)),
                             sign |-> (lo + i - 1) % 12]] :
                         lo \in {CHOOSE n \in cand : \A k \in cand : n <= k} }) :
              cand \in {{ n \in first..last :
                            t0 < IngressInstant(sh, n) /\ IngressInstant(sh, n) < t1 }} })

\* the loop of compute_ingresses over zip(times, signs)
RECURSIVE CollectIngresses(_, _, _, _)
CollectIngresses(found, i, seen_aries, ingresses) ==
    IF i > Len(found) THEN ingresses
    ELSE The({ IF ~seen THEN CollectIngresses(found, next, seen, ingresses)
               ELSE The({ IF Len(app) = 12 THEN app
                          ELSE CollectIngresses(found, next, seen, app) :
                          app \in {Append(ingresses,
                                     [sign_index |-> found[i].sign,
                                      longitude |-> found[i].sign * 30,
                                      utc_iso |-> isoformat(found[i].t),
                                      utc_datetime |-> found[i].t])} }) :
               seen \in {seen_aries \/ found[i].sign = 0}, next \in {i + 1} })

\* compute_ingresses starting with seen_aries = True
compute_ingresses_seen_from_start(sh, year) ==
    LET t0 == (ymd2ord(year, 2, 1) - EpochOrd) * 1440
        t1 == (ymd2ord(year + 1, 4, 1) - EpochOrd) * 1440
    IN  The({ CollectIngresses(found, 1, TRUE, << >>) :
              found \in {find_discrete(sh, t0, t1)} })

\* compute_ingresses(year): search Feb 1 of year .. Apr 1 of year + 1
compute_ingresses(sh, year) ==
    LET t0 == (ymd2ord(year, 2, 1) - EpochOrd) * 1440
        t1 == (ymd2ord(year + 1, 4, 1) - EpochOrd) * 1440
    IN  The({ CollectIngresses(found, 1, FALSE, << >>) :
              found \in {find_discrete(sh, t0, t1)} })

(***************************************************************************)
(* The cache file data/ingress_cache.json                                  *)
(***************************************************************************)
\* The file is [exists, json, data, size]: `size` is the length of its
\* text in characters, `json` says that the text is one JSON document and
\* `data` is then the object it holds (<< >> otherwise).
\* a missing file, and the Python value None
NoFile == [exists |-> FALSE, json |-> FALSE, data |-> << >>, size |-> 0]

None == [ok |-> TRUE, none |-> TRUE, dict |-> << >>]

\* what json.load raises on a text that is not a JSON document
JSONDecodeError == [ok |-> FALSE, none |-> FALSE, dict |-> << >>]

\* load_ingress_cache(): None when the file is missing, else its JSON
\* object; a text that does not parse raises
load_ingress_cache(file) ==
    IF ~file.exists THEN None
    ELSE IF ~file.json THEN JSONDecodeError
    ELSE [ok |-> TRUE, none |-> FALSE, dict |-> file.data]

\* the sum of f[x] over the domain of f
RECURSIVE SumOver(_)
SumOver(f) ==
    IF DOMAIN f = {} THEN 0
    ELSE The({ f[x] + SumOver([y \in DOMAIN f \ {x} |-> f[y]]) :
               x \in {CHOOSE z \in DOMAIN f : TRUE} })

\* the length of the text json.dump(data, f, indent=2) writes: an entry is
\* a brace line, three key lines and a brace line, entries and years are
\* joined by ",\n"
EntryLength(entry) ==
    6 + (20 + Len(Digits(entry.sign_index))) + 2
      + (19 + Len(Digits(entry.longitude))) + 2 + 44 + 1 + 5

ListLength(entries) ==
    IF Len(entries) = 0 THEN 2
    ELSE 2 + SumOver([i \in 1..Len(entries) |-> EntryLength(entries[i])])
           + 2 * (Len(entries) - 1) + 4

JsonLength(data) ==
    IF DOMAIN data = {} THEN 2
    ELSE 2 + SumOver([k \in DOMAIN data |-> Len(k) + 6 + ListLength(data[k])])
           + 2 * (Cardinality(DOMAIN data) - 1) + 2

\* open(CACHE_FILE, "w"): the file exists and is cut to no text at all
open_w(file) == [exists |-> TRUE, json |-> FALSE, data |-> << >>, size |-> 0]

\* json.dump(data, f) on a file opened by open_w: the text goes in at the
\* start of the file; text another writer has put there since the open is
\* replaced as far as the new text reaches, and what lies beyond stays
json_dump(file, data) ==
    The({ IF n >= file.size
          THEN [exists |-> TRUE, json |-> TRUE, data |-> data, size |-> n]
          ELSE [exists |-> TRUE, json |-> FALSE, data |-> << >>, size |-> file.size] :
          n \in {JsonLength(data)} })

\* save_ingress_cache(data): the file is opened for writing and the whole
\* of data is dumped into it
save_ingress_cache(data) == json_dump(open_w(NoFile), data)

\* the entry as it is written to the file (utc_datetime is dropped)
Serializable(ingresses) ==
    [i \in 1..Len(ingresses) |->
        [sign_index |-> ingresses[i].sign_index,
         longitude |-> ingresses[i].longitude,
         utc_iso |-> ingresses[i].utc_iso]]

\* the cached entries with utc_datetime parsed back from utc_iso
WithDatetime(entries) ==
    [i \in 1..Len(entries) |->
        [sign_index |-> entries[i].sign_index,
         longitude |-> entries[i].longitude,
         utc_iso |-> entries[i].utc_iso,
         utc_datetime |-> fromisoformat(entries[i].utc_iso)]]

\* d[k] = v on a Python dict
DictSet(d, k, v) == [x \in (DOMAIN d) \cup {k} |-> IF x = k THEN v ELSE d[x]]

\* a call that returned v, and a call that raised an error with text msg
Return(w, v) == [w |-> w, ok |-> TRUE, value |-> v]

Raise(w, msg) == [w |-> w, ok |-> FALSE, err |-> msg]

\* the state the cache functions read and write: the ephemeris, the file
\* and the number of oracle searches made for each year
World(sh, file, n) == [shift |-> sh, file |-> file, calls |-> n]

\* one more compute_ingresses(year) has run
Count(n, year) == IF year \in DOMAIN n THEN [n EXCEPT ![year] = @ + 1] ELSE n

\* no year has been searched more than MaxCalls times: runs are followed
\* up to that many searches of a year
WithinCalls(n) == \A y \in DOMAIN n : n[y] <= MaxCalls

\* get_ingresses_for_year writing back only the year it computed
get_ingresses_for_year_overwrite(w, year) ==
    The({ IF ~cache.ok THEN Raise(w, "JSONDecodeError")
          ELSE IF ~cache.none /\ DOMAIN cache.dict # {} /\ year_str \in DOMAIN cache.dict
          THEN Return(w, WithDatetime(cache.dict[year_str]))
          ELSE The({ Return(World(w.shift,
                                  save_ingress_cache(
                                      DictSet(<< >>, year_str, Serializable(ingresses))),
                                  Count(w.calls, year)),
                            ingresses) :
                     ingresses \in {compute_ingresses(w.shift, year)} }) :
          cache \in {load_ingress_cache(w.file)}, year_str \in {str(year)} })

\* get_ingresses_for_year never looking into the cache it loaded
get_ingresses_for_year_recompute(w, year) ==
    The({ IF ~cache.ok THEN Raise(w, "JSONDecodeError")
          ELSE Return(World(w.shift,
                            save_ingress_cache(
                                DictSet(IF cache.none THEN << >> ELSE cache.dict,
                                        year_str, Serializable(ingresses))),
                            Count(w.calls, year)),
                      ingresses) :
          cache \in {load_ingress_cache(w.file)}, year_str \in {str(year)},
          ingresses \in {compute_ingresses(w.shift, year)} })

\* get_ingresses_for_year(year): the world afterwards and the list, or the
\* error of a cache file that does not parse
get_ingresses_for_year(w, year) ==
    The({ IF ~cache.ok THEN Raise(w, "JSONDecodeError")
          ELSE IF ~cache.none /\ DOMAIN cache.dict # {} /\ year_str \in DOMAIN cache.dict
          THEN Return(w, WithDatetime(cache.dict[year_str]))
          ELSE The({ Return(World(w.shift,
                                  save_ingress_cache(
                                      DictSet(IF cache.none THEN << >> ELSE cache.dict,
                                              year_str, Serializable(ingresses))),
                                  Count(w.calls, year)),
                            ingresses) :
                     ingresses \in {compute_ingresses(w.shift, year)} }) :
          cache \in {load_ingress_cache(w.file)}, year_str \in {str(year)} })

(***************************************************************************)
(* converter.py                                                            *)
(***************************************************************************)
\* _get_ingress_dates_for_zodiac_year: the (date, sign_index) pairs
_get_ingress_dates_for_zodiac_year(w, zodiac_year) ==
    The({ IF ~r.ok THEN r
          ELSE Return(r.w, [i \in 1..Len(r.value) |->
                              [date |-> DateOfDt(fromisoformat(r.value[i].utc_iso)),
                               sign_index |-> r.value[i].sign_index]]) :
          r \in {get_ingresses_for_year(w, zodiac_year)} })

\* _find_zodiac_year_for_gregorian always answering the Gregorian year
_find_zodiac_year_for_gregorian_same_year(w, greg_date) ==
    The({ IF ~r.ok THEN r ELSE Return(r.w, YearOf(greg_date)) :
          r \in {get_ingresses_for_year(w, YearOf(greg_date))} })

\* _find_zodiac_year_for_gregorian comparing with > instead of >=
_find_zodiac_year_for_gregorian_strict(w, greg_date) ==
    The({ IF ~r.ok THEN r
          ELSE Return(r.w, IF greg_date > DateOfDt(fromisoformat(r.value[1].utc_iso))
                           THEN YearOf(greg_date) ELSE YearOf(greg_date) - 1) :
          r \in {get_ingresses_for_year(w, YearOf(greg_date))} })

\* _find_zodiac_year_for_gregorian
_find_zodiac_year_for_gregorian(w, greg_date) ==
    The({ IF ~r.ok THEN r
          ELSE Return(r.w, IF greg_date >= DateOfDt(fromisoformat(r.value[1].utc_iso))
                           THEN YearOf(greg_date) ELSE YearOf(greg_date) - 1) :
          r \in {get_ingresses_for_year(w, YearOf(greg_date))} })

\* bisect.bisect_left in the place of bisect_right
RECURSIVE BisectLeft(_, _, _, _)
BisectLeft(a, x, lo, hi) ==
    IF lo >= hi THEN lo
    ELSE The({ IF a[mid + 1] < x THEN BisectLeft(a, x, mid + 1, hi)
               ELSE BisectLeft(a, x, lo, mid) :
               mid \in {(lo + hi) \div 2} })

bisect_left(a, x) == BisectLeft(a, x, 0, Len(a))

\* bisect.bisect_right(a, x) with Python's 0-based lo and hi
RECURSIVE BisectRight(_, _, _, _)
BisectRight(a, x, lo, hi) ==
    IF lo >= hi THEN lo
    ELSE The({ IF x < a[mid + 1] THEN BisectRight(a, x, lo, mid)
               ELSE BisectRight(a, x, mid + 1, hi) :
               mid \in {(lo + hi) \div 2} })

bisect_right(a, x) == BisectRight(a, x, 0, Len(a))

\* gregorian_to_zodiac numbering the days of a month from 0
gregorian_to_zodiac_zero_based(w, greg_date) ==
    The({ IF ~y.ok THEN y
          ELSE The({ IF ~r.ok THEN r
                     ELSE The({ IF idx < 0 THEN Raise(r.w, "before the zodiac year")
                                ELSE Return(r.w, ZodiacDate(y.value,
                                                     r.value[idx + 1].sign_index + 1,
                                                     greg_date - r.value[idx + 1].date)) :
                                idx \in {bisect_right(
                                             [i \in 1..Len(r.value) |-> r.value[i].date],
                                             greg_date) - 1} }) :
                     r \in {_get_ingress_dates_for_zodiac_year(y.w, y.value)} }) :
          y \in {_find_zodiac_year_for_gregorian(w, greg_date)} })

\* gregorian_to_zodiac: y is the zodiac year found, r.value the ingress
\* dates of that year
gregorian_to_zodiac(w, greg_date) ==
    The({ IF ~y.ok THEN y
          ELSE The({ IF ~r.ok THEN r
                     ELSE The({ IF idx < 0 THEN Raise(r.w, "before the zodiac year")
                                ELSE LET month_start_date == r.value[idx + 1].date
                                         sign_index       == r.value[idx + 1].sign_index
                                         day    == (greg_date - month_start_date) + 1
                                         month  == sign_index + 1
                                     IN  Return(r.w, ZodiacDate(y.value, month, day)) :
                                idx \in {bisect_right(
                                             [i \in 1..Len(r.value) |-> r.value[i].date],
                                             greg_date) - 1} }) :
                     r \in {_get_ingress_dates_for_zodiac_year(y.w, y.value)} }) :
          y \in {_find_zodiac_year_for_gregorian(w, greg_date)} })

\* zodiac_to_gregorian adding the day number without the - 1
zodiac_to_gregorian_off_by_one(w, zodiac_date) ==
    The({ LET ingress_dates == r.value
              month_idx     == zodiac_date.month - 1
          IN  IF ~r.ok THEN r
              ELSE IF month_idx < 0 \/ month_idx >= Len(ingress_dates)
              THEN Raise(r.w, "Invalid zodiac month")
              ELSE LET result == ingress_dates[month_idx + 1].date + zodiac_date.day
                   IN  IF /\ month_idx + 1 < Len(ingress_dates)
                          /\ result >= ingress_dates[month_idx + 2].date
                       THEN Raise(r.w, "beyond the length")
                       ELSE Return(r.w, result) :
          r \in {_get_ingress_dates_for_zodiac_year(w, zodiac_date.year)} })

\* zodiac_to_gregorian
zodiac_to_gregorian(w, zodiac_date) ==
    The({ LET ingress_dates == r.value
              month_idx     == zodiac_date.month - 1
          IN  IF ~r.ok THEN r
              ELSE IF month_idx < 0 \/ month_idx >= Len(ingress_dates)
              THEN Raise(r.w, "Invalid zodiac month")
              ELSE LET month_start_date == ingress_dates[month_idx + 1].date
                       result           == month_start_date + (zodiac_date.day - 1)
                   IN  IF /\ month_idx + 1 < Len(ingress_dates)
                          /\ result >= ingress_dates[month_idx + 2].date
                       THEN Raise(r.w, "beyond the length")
                       ELSE Return(r.w, result) :
          r \in {_get_ingress_dates_for_zodiac_year(w, zodiac_date.year)} })

\* a[i] with Python's index i, negative indices counting from the end
PyIndex(a, i) == IF i < 0 THEN a[Len(a) + i + 1] ELSE a[i + 1]

\* month_length without the month_idx < 0 test
month_length_no_lower_bound(w, zodiac_year, month) ==
    The({ LET ingress_dates == r.value
              month_idx     == month - 1
          IN  IF ~r.ok THEN r
              ELSE IF month_idx >= Len(ingress_dates) \/ month_idx < 0 - Len(ingress_dates)
              THEN Raise(r.w, "Invalid zodiac month")
              ELSE LET start_date == PyIndex(ingress_dates, month_idx).date
                   IN  IF month_idx + 1 < Len(ingress_dates)
                       THEN Return(r.w, PyIndex(ingress_dates, month_idx + 1).date
                                        - start_date)
                       ELSE The({ IF ~n.ok THEN n
                                  ELSE Return(n.w, n.value[1].date - start_date) :
                                  n \in {_get_ingress_dates_for_zodiac_year(
                                             r.w, zodiac_year + 1)} }) :
          r \in {_get_ingress_dates_for_zodiac_year(w, zodiac_year)} })

\* month_length ending the last month at the Aries ingress of the same year
month_length_same_year(w, zodiac_year, month) ==
    The({ LET ingress_dates == r.value
              month_idx     == month - 1
          IN  IF ~r.ok THEN r
              ELSE IF month_idx < 0 \/ month_idx >= Len(ingress_dates)
              THEN Raise(r.w, "Invalid zodiac month")
              ELSE LET start_date == ingress_dates[month_idx + 1].date
                   IN  IF month_idx + 1 < Len(ingress_dates)
                       THEN Return(r.w, ingress_dates[month_idx + 2].date - start_date)
                       ELSE Return(r.w, ingress_dates[1].date - start_date) :
          r \in {_get_ingress_dates_for_zodiac_year(w, zodiac_year)} })

\* month_length
month_length(w, zodiac_year, month) ==
    The({ LET ingress_dates == r.value
              month_idx     == month - 1
          IN  IF ~r.ok THEN r
              ELSE IF month_idx < 0 \/ month_idx >= Len(ingress_dates)
              THEN Raise(r.w, "Invalid zodiac month")
              ELSE LET start_date == ingress_dates[month_idx + 1].date
                   IN  IF month_idx + 1 < Len(ingress_dates)
                       THEN Return(r.w, ingress_dates[month_idx + 2].date - start_date)
                       ELSE The({ IF ~n.ok THEN n
                                  ELSE Return(n.w, n.value[1].date - start_date) :
                                  n \in {_get_ingress_dates_for_zodiac_year(
                                             r.w, zodiac_year + 1)} }) :
          r \in {_get_ingress_dates_for_zodiac_year(w, zodiac_year)} })

\* the generator sum(month_length(zodiac_year, m) for m in range(1, 13)),
\* from month m on, with the total so far
RECURSIVE SumMonths(_, _, _, _)
SumMonths(w, zodiac_year, m, total) ==
    IF m > 12 THEN Return(w, total)
    ELSE The({ IF ~r.ok THEN r
               ELSE The({ SumMonths(r.w, zodiac_year, next, sum) :
                          next \in {m + 1}, sum \in {total + r.value} }) :
               r \in {month_length(w, zodiac_year, m)} })

\* year_length
year_length(w, zodiac_year) == SumMonths(w, zodiac_year, 1, 0)

(***************************************************************************)
(* The program: one command at a time (the tool is started once per run),  *)
(* each command calling into the conversion API; the cache file outlives   *)
(* the run.                                                                *)
(***************************************************************************)
FirstYear == from_amareth(1)

\* the civil days converted, the zodiac years, months and days asked for
Days == ymd2ord(FirstYear, 1, 1) .. ymd2ord(FirstYear + MaxYears - 1, 12, 31)

ZYears == FirstYear .. (FirstYear + MaxYears - 1)

CacheYears == (FirstYear - 1) .. (FirstYear + MaxYears)

\* the Amareth years given to the command `year`
YearArgs == 0 .. MaxYears

Months == (1 - MaxMonthOut) .. (12 + MaxMonthOut)

DayNumbers == (0 - MaxDayBelow) .. MaxDay

Shifts == { k * ShiftStep : k \in (0 - MaxShift) .. MaxShift }

Idle == [name |-> "idle"]

\* what the caller sees of a call
Outcome(r) ==
    IF r.ok THEN [ok |-> TRUE, value |-> r.value] ELSE [ok |-> FALSE, err |-> r.err]

Now == World(shift, cacheFile, calls)

\* the world after the command is what its last call left
Leaves(w) ==
    /\ WithinCalls(w.calls)
    /\ cacheFile' = w.file
    /\ calls' = w.calls
    /\ shift' = shift

Init ==
    /\ shift \in Shifts
    /\ cacheFile = NoFile
    /\ calls = [y \in CacheYears |-> 0]
    /\ op = Idle

\* one call of get_ingresses_for_year(year) from outside the package
GetIngresses(year) ==
    /\ op = Idle
    /\ \E r \in {get_ingresses_for_year(Now, year)} :
           /\ Leaves(r.w)
           /\ op' = [name |-> "get", year |-> year, ok |-> r.ok,
                     value |-> IF r.ok THEN r.value ELSE << >>,
                     miss |-> r.w.calls # calls]

\* the loop of cmd_year: month_length(year, i + 1) for row i of ingresses,
\* the lengths so far in `days`
RECURSIVE YearRows(_, _, _, _, _)
YearRows(w, year, ingresses, i, days) ==
    IF i >= Len(ingresses) THEN Return(w, days)
    ELSE The({ IF ~r.ok THEN r
               ELSE YearRows(r.w, year, ingresses, i + 1, Append(days, r.value)) :
               r \in {month_length(w, year, i + 1)} })

\* SumOver for a sequence of lengths
RECURSIVE SumDays(_)
SumDays(days) ==
    IF Len(days) = 0 THEN 0
    ELSE days[Len(days)] + SumDays(SubSeq(days, 1, Len(days) - 1))

\* the command `year`: the ingresses of the year, then one row per ingress
\* with the length of its month, then the total
cmd_year(amareth_year) ==
    /\ op = Idle
    /\ \E year \in {from_amareth(amareth_year)} :
       \E ingresses \in {get_ingresses_for_year(Now, year)} :
       \E rows \in {IF ingresses.ok
                    THEN YearRows(ingresses.w, year, ingresses.value, 0, << >>)
                    ELSE ingresses} :
           /\ Leaves(rows.w)
           /\ op' = [name |-> "year", year |-> year,
                     ingresses |-> IF ingresses.ok THEN ingresses.value ELSE << >>,
                     days |-> Outcome(rows),
                     total_days |-> IF rows.ok THEN SumDays(rows.value) ELSE 0]

\* zd = gregorian_to_zodiac(greg_date); result = zodiac_to_gregorian(zd)
GregToZodiacToGreg(greg_date) ==
    /\ op = Idle
    /\ \E zd \in {gregorian_to_zodiac(Now, greg_date)} :
       \E back \in {IF zd.ok THEN zodiac_to_gregorian(zd.w, zd.value) ELSE zd} :
           /\ Leaves(back.w)
           /\ op' = [name |-> "g2z2g", greg |-> greg_date,
                     zd |-> Outcome(zd), back |-> Outcome(back)]

\* greg = zodiac_to_gregorian(zd); result = gregorian_to_zodiac(greg)
ZodiacToGregToZodiac(year, month, day) ==
    /\ op = Idle
    /\ \E greg \in {zodiac_to_gregorian(Now, ZodiacDate(year, month, day))} :
       \E back \in {IF greg.ok THEN gregorian_to_zodiac(greg.w, greg.value) ELSE greg} :
           /\ Leaves(back.w)
           /\ op' = [name |-> "z2g2z", z |-> ZodiacDate(year, month, day),
                     greg |-> Outcome(greg), back |-> Outcome(back)]

\* month_length(year, month)
MonthLength(year, month) ==
    /\ op = Idle
    /\ \E r \in {month_length(Now, year, month)} :
           /\ Leaves(r.w)
           /\ op' = [name |-> "month_length", year |-> year, month |-> month,
                     len |-> Outcome(r)]

\* year_length(year), and the two Aries ingress dates it spans
YearLength(year) ==
    /\ op = Idle
    /\ \E r \in {year_length(Now, year)} :
       \E this \in {_get_ingress_dates_for_zodiac_year(r.w, year)} :
       \E next \in {_get_ingress_dates_for_zodiac_year(this.w, year + 1)} :
           /\ Leaves(next.w)
           /\ op' = [name |-> "year_length", year |-> year, len |-> Outcome(r),
                     aries |-> this.value[1].date, next_aries |-> next.value[1].date]

\* the civil day before the ingress that ends month `month` of `year`
\* (TestLastDayOfMonth): its zodiac date and the month's length
LastDayOfMonth(year, month) ==
    /\ op = Idle
    /\ \E ing \in {IF month < 12
                   THEN _get_ingress_dates_for_zodiac_year(Now, year)
                   ELSE _get_ingress_dates_for_zodiac_year(Now, year + 1)} :
       \E last_day_greg \in {(IF month < 12 THEN ing.value[month + 1].date
                              ELSE ing.value[1].date) - 1} :
       \E zd \in {gregorian_to_zodiac(ing.w, last_day_greg)} :
       \E len \in {month_length(zd.w, year, month)} :
           /\ Leaves(len.w)
           /\ op' = [name |-> "last_day", year |-> year, month |-> month,
                     greg |-> last_day_greg, zd |-> Outcome(zd), len |-> Outcome(len)]

\* TestContinuousCoverage: start at the Aries ingress date of `year`
WalkStart(year) ==
    /\ op = Idle
    /\ \E this \in {_get_ingress_dates_for_zodiac_year(Now, year)} :
       \E next \in {_get_ingress_dates_for_zodiac_year(this.w, year + 1)} :
       \E zd \in {gregorian_to_zodiac(next.w, this.value[1].date)} :
           /\ Leaves(zd.w)
           /\ op' = [name |-> "walk", year |-> year, end |-> next.value[1].date,
                     current |-> this.value[1].date, first |-> TRUE,
                     prev_zd |-> Outcome(zd), zd |-> Outcome(zd)]

\* current += timedelta(days=1) while current < end
WalkStep ==
    /\ op.name = "walk"
    /\ op.current + 1 < op.end
    /\ \E zd \in {gregorian_to_zodiac(Now, op.current + 1)} :
           /\ Leaves(zd.w)
           /\ op' = [op EXCEPT !.current = op.current + 1, !.first = FALSE,
                               !.prev_zd = op.zd, !.zd = Outcome(zd)]

\* the command has printed its result and the process ends
Exit ==
    /\ op.name # "idle"
    /\ op.name = "walk" => op.current + 1 >= op.end
    /\ op' = Idle
    /\ UNCHANGED <<shift, cacheFile, calls>>

Next ==
    \/ \E year \in CacheYears : GetIngresses(year)
    \/ \E amareth_year \in YearArgs : cmd_year(amareth_year)
    \/ \E greg_date \in Days : GregToZodiacToGreg(greg_date)
    \/ \E year \in ZYears, month \in Months, day \in DayNumbers :
          ZodiacToGregToZodiac(year, month, day)
    \/ \E year \in ZYears, month \in Months : MonthLength(year, month)
    \/ \E year \in ZYears : YearLength(year)
    \/ \E year \in ZYears, month \in 1..12 : LastDayOfMonth(year, month)
    \/ \E year \in ZYears : WalkStart(year)
    \/ WalkStep
    \/ Exit

Spec == Init /\ [][Next]_vars

TypeOK ==
    /\ shift \in Shifts
    /\ cacheFile.exists \in BOOLEAN
    /\ op.name \in {"idle", "get", "year", "g2z2g", "z2g2z", "month_length",
                    "year_length", "last_day", "walk"}

(***************************************************************************)
(* generate_cache.py: the bulk pre-computation, run between commands       *)
(***************************************************************************)
\* the loop of compute_ingresses_range from `year` on, result so far in
\* `result`: [w |-> the world afterwards, value |-> the dict]
RECURSIVE RangeLoop(_, _, _, _)
RangeLoop(w, year, end_year, result) ==
    IF year > end_year THEN [w |-> w, value |-> result]
    ELSE The({ RangeLoop(w2, next, end_year, result2) :
               w2 \in {World(w.shift, w.file, Count(w.calls, year))},
               next \in {year + 1},
               result2 \in {DictSet(result, str(year),
                                    Serializable(compute_ingresses(w.shift, year)))} })

\* compute_ingresses_range(start_year, end_year)
compute_ingresses_range(w, start_year, end_year) ==
    RangeLoop(w, start_year, end_year, << >>)

\* generate_cache.main with --start and --end: `before` keeps the file the
\* run found
GenerateCache(start, end) ==
    /\ op = Idle
    /\ \E data \in {compute_ingresses_range(Now, start, end)} :
           /\ WithinCalls(data.w.calls)
           /\ cacheFile' = save_ingress_cache(data.value)
           /\ calls' = data.w.calls
           /\ shift' = shift
           /\ op' = [name |-> "generate", start |-> start, end |-> end,
                     before |-> cacheFile]

NextBulk ==
    \/ \E year \in CacheYears : GetIngresses(year)
    \/ \E start \in CacheYears, end \in CacheYears : GenerateCache(start, end)
    \/ Exit

SpecBulk == Init /\ [][NextBulk]_vars

(***************************************************************************)
(* The oracle on its own: compute_ingresses(year) for the years the bulk   *)
(* run covers by default, from --start 2000 on                             *)
(***************************************************************************)
MaxOracleYears == 40

DefaultStart == 2000

OracleYears == DefaultStart .. (DefaultStart + MaxOracleYears)

\* times, signs = almanac.find_discrete(t0, t1, zodiac_sign_at) for `year`
SearchResult(sh, year) ==
    find_discrete(sh, (ymd2ord(year, 2, 1) - EpochOrd) * 1440,
                      (ymd2ord(year + 1, 4, 1) - EpochOrd) * 1440)

\* compute_ingresses(year), with the transitions its search found; the
\* search is one more oracle search for the year
ComputeIngresses(year) ==
    /\ op = Idle
    /\ op' = [name |-> "compute", year |-> year,
              found |-> SearchResult(shift, year),
              value |-> compute_ingresses(shift, year)]
    /\ WithinCalls(Count(calls, year))
    /\ calls' = Count(calls, year)
    /\ UNCHANGED <<shift, cacheFile>>

NextOracle ==
    \/ \E year \in OracleYears : ComputeIngresses(year)
    \/ Exit

SpecOracle == Init /\ [][NextOracle]_vars

(***************************************************************************)
(* An ephemeris whose sign changes come so late that the search window of  *)
(* compute_ingresses, which closes on Apr 1 of year + 1, ends before the   *)
(* Sun has entered Pisces                                                  *)
(***************************************************************************)
MaxLate == 1

\* t1 of compute_ingresses(2026), in minutes since the epoch
WindowEnd2026 == (ymd2ord(2026 + 1, 4, 1) - EpochOrd) * 1440

\* the least number of shift steps that moves the twelfth ingress of a
\* zodiac year to or past the end of the search window
FirstLate ==
    CHOOSE k \in 1..200 :
        /\ IngressInstant(k * ShiftStep, 11) >= WindowEnd2026
        /\ IngressInstant((k - 1) * ShiftStep, 11) < WindowEnd2026

LateShifts == { (FirstLate + k) * ShiftStep : k \in 0..MaxLate }

InitShort ==
    /\ shift \in LateShifts
    /\ cacheFile = NoFile
    /\ calls = [y \in CacheYears |-> 0]
    /\ op = Idle

NextShort ==
    \/ \E year \in OracleYears : ComputeIngresses(year)
    \/ \E year \in CacheYears : GetIngresses(year)
    \/ \E amareth_year \in YearArgs : cmd_year(amareth_year)
    \/ Exit

SpecShort == InitShort /\ [][NextShort]_vars

(***************************************************************************)
(* Two processes in get_ingresses_for_year at once.  A process touches the *)
(* file three times: load_ingress_cache() reads it, and                    *)
(* save_ingress_cache() first cuts it to nothing with open(.., "w") and    *)
(* then writes the text with json.dump.  Nothing is locked, so the other   *)
(* process may run between any two of these.                               *)
(***************************************************************************)
Procs == {1, 2}

\* a process about to call get_ingresses_for_year(year)
Entering(year) ==
    [pc |-> "load", year |-> year, cache |-> None, value |-> << >>, data |-> << >>]

\* get_ingresses_for_year up to the cache test: the file is read; a text
\* that does not parse raises, a hit returns the cached entries
get_ingresses_for_year_load(file, proc) ==
    The({ IF ~cache.ok THEN [proc EXCEPT !.pc = "raised", !.cache = cache]
          ELSE IF ~cache.none /\ DOMAIN cache.dict # {} /\ year_str \in DOMAIN cache.dict
          THEN [proc EXCEPT !.pc = "done", !.cache = cache,
                            !.value = WithDatetime(cache.dict[year_str])]
          ELSE [proc EXCEPT !.pc = "open", !.cache = cache] :
          cache \in {load_ingress_cache(file)}, year_str \in {str(proc.year)} })

\* the miss branch putting the year into what the file holds at the time
\* of the save
get_ingresses_for_year_open_reloading(w, proc) ==
    The({ [w |-> World(w.shift, open_w(w.file), Count(w.calls, proc.year)),
           proc |-> [proc EXCEPT !.pc = "dump", !.value = ingresses,
                        !.data = DictSet(w.file.data, str(proc.year),
                                         Serializable(ingresses))]] :
          ingresses \in {compute_ingresses(w.shift, proc.year)} })

\* the miss branch of get_ingresses_for_year up to the open of
\* save_ingress_cache: compute, put the year into the dict loaded earlier,
\* open the file for writing
get_ingresses_for_year_open(w, proc) ==
    The({ [w |-> World(w.shift, open_w(w.file), Count(w.calls, proc.year)),
           proc |-> [proc EXCEPT !.pc = "dump", !.value = ingresses,
                        !.data = DictSet(IF proc.cache.none THEN << >>
                                         ELSE proc.cache.dict,
                                         str(proc.year), Serializable(ingresses))]] :
          ingresses \in {compute_ingresses(w.shift, proc.year)} })

\* the json.dump of save_ingress_cache, and the return of the ingresses
get_ingresses_for_year_dump(w, proc) ==
    [w |-> World(w.shift, json_dump(w.file, proc.data), w.calls),
     proc |-> [proc EXCEPT !.pc = "done"]]

\* two commands are started, one per process
RaceStart(year1, year2) ==
    /\ op = Idle
    /\ op' = [name |-> "race", before |-> cacheFile, log |-> << >>,
              procs |-> <<Entering(year1), Entering(year2)>>]
    /\ UNCHANGED <<shift, cacheFile, calls>>

\* process p reads the file
RaceLoad(p) ==
    /\ op.name = "race"
    /\ op.procs[p].pc = "load"
    /\ op' = [op EXCEPT !.procs[p] = get_ingresses_for_year_load(cacheFile, @),
                        !.log = Append(@, p)]
    /\ UNCHANGED <<shift, cacheFile, calls>>

\* process p computes its year and opens the file for writing
RaceOpen(p) ==
    /\ op.name = "race"
    /\ op.procs[p].pc = "open"
    /\ \E r \in {get_ingresses_for_year_open(Now, op.procs[p])} :
           /\ Leaves(r.w)
           /\ op' = [op EXCEPT !.procs[p] = r.proc, !.log = Append(@, p)]

\* process p writes its dict into the file and returns
RaceDump(p) ==
    /\ op.name = "race"
    /\ op.procs[p].pc = "dump"
    /\ \E r \in {get_ingresses_for_year_dump(Now, op.procs[p])} :
           /\ Leaves(r.w)
           /\ op' = [op EXCEPT !.procs[p] = r.proc, !.log = Append(@, p)]

\* both processes have returned or raised
RaceEnd ==
    /\ op.name = "race"
    /\ \A p \in Procs : op.procs[p].pc \in {"done", "raised"}
    /\ op' = Idle
    /\ UNCHANGED <<shift, cacheFile, calls>>

NextRace ==
    \/ \E year1 \in CacheYears, year2 \in CacheYears : RaceStart(year1, year2)
    \/ \E p \in Procs : RaceLoad(p)
    \/ \E p \in Procs : RaceOpen(p)
    \/ \E p \in Procs : RaceDump(p)
    \/ RaceEnd

SpecRace == Init /\ [][NextRace]_vars

(***************************************************************************)
(* Properties                                                              *)
(***************************************************************************)
\* the year has a table in the cache file
Persisted(file, year) == file.exists /\ str(year) \in DOMAIN file.data

\* month_length as the caller sees it in the current world
LengthNow(year, month) == Outcome(month_length(Now, year, month))

ValidZodiacDate(z) ==
    /\ z.month \in 1..12
    /\ z.day >= 1
    /\ LengthNow(z.year, z.month).ok
    /\ z.day <= LengthNow(z.year, z.month).value

\* C1: converting any Gregorian date to a zodiac date and back raises no
\* error and returns the date started from.
C1_RoundTripGregorian ==
    op.name = "g2z2g" =>
        /\ op.zd.ok
        /\ op.back.ok
        /\ op.back.value = op.greg

\* a date before the Aries ingress of its Gregorian year, in Piscion of the
\* previous zodiac year, has come back
C1_Witness ==
    /\ op.name = "g2z2g"
    /\ op.zd.ok
    /\ op.zd.value.year = YearOf(op.greg) - 1
    /\ op.zd.value.month = 12
    /\ op.back.ok
    /\ op.back.value = op.greg

\* C2: converting a zodiac date whose month is 1..12 and whose day is
\* within the month's length to Gregorian and back returns the same year,
\* month and day.
C2_RoundTripZodiac ==
    (op.name = "z2g2z" /\ ValidZodiacDate(op.z)) =>
        /\ op.greg.ok
        /\ op.back.ok
        /\ op.back.value = op.z

\* the last day of Piscion has come back
C2_Witness ==
    /\ op.name = "z2g2z"
    /\ op.z.month = 12
    /\ LengthNow(op.z.year, 12).ok
    /\ op.z.day = LengthNow(op.z.year, 12).value
    /\ op.back.ok
    /\ op.back.value = op.z

\* C3: zodiac_to_gregorian fails with a range error for every day beyond
\* the length of its month, month 12 being bounded by the Aries ingress
\* date of the next zodiac year.
C3_DayBeyondMonthRaises ==
    (/\ op.name = "z2g2z"
     /\ op.z.month \in 1..12
     /\ LengthNow(op.z.year, op.z.month).ok
     /\ op.z.day > LengthNow(op.z.year, op.z.month).value) =>
        /\ ~op.greg.ok
        /\ op.greg.err = "beyond the length"

\* C4: zodiac_to_gregorian with a zero or negative day raises an error
\* and returns no Gregorian date.
C4_NonPositiveDayRaises ==
    (op.name = "z2g2z" /\ op.z.month \in 1..12 /\ op.z.day <= 0) => ~op.greg.ok

\* C5: for a month outside 1..12 both zodiac_to_gregorian and
\* month_length raise an error and return no value.
C5_InvalidMonthRaises ==
    /\ (op.name = "z2g2z" /\ op.z.month \notin 1..12) =>
            (~op.greg.ok /\ op.greg.err = "Invalid zodiac month" /\ ~op.back.ok)
    /\ (op.name = "month_length" /\ op.month \notin 1..12) =>
            (~op.len.ok /\ op.len.err = "Invalid zodiac month")

\* month 0 has been refused by month_length
C5_Witness ==
    /\ op.name = "month_length"
    /\ op.month = 0
    /\ ~op.len.ok

\* C6: year_length, the sum of the twelve month lengths, is the number of
\* days from the Aries ingress date of the year to that of the next year.
C6_YearLengthIsAriesSpan ==
    op.name = "year_length" =>
        /\ op.len.ok
        /\ op.len.value = op.next_aries - op.aries

C6_Witness ==
    /\ op.name = "year_length"
    /\ op.len.ok
    /\ op.next_aries > op.aries
    /\ op.len.value = op.next_aries - op.aries

\* C7: the civil day before the ingress date that ends month m of year Y
\* converts to (Y, m, month_length(Y, m)).
C7_LastDayOfMonth ==
    op.name = "last_day" =>
        /\ op.zd.ok
        /\ op.len.ok
        /\ op.zd.value = ZodiacDate(op.year, op.month, op.len.value)

\* the day before the next year's Aries ingress is the last day of Piscion
C7_Witness ==
    /\ op.name = "last_day"
    /\ op.month = 12
    /\ op.zd.ok
    /\ op.len.ok
    /\ op.zd.value = ZodiacDate(op.year, 12, op.len.value)

\* C8: walking day by day from the Aries ingress date of Y up to the day
\* before the next one, every date is in year Y, the first is (1, 1), each
\* step keeps the month and adds one to the day or adds one to the month
\* and restarts at day 1, and the last day is in month 12.
C8_WalkIsContiguous ==
    op.name = "walk" =>
        /\ op.zd.ok
        /\ op.zd.value.year = op.year
        /\ op.first => (op.zd.value.month = 1 /\ op.zd.value.day = 1)
        /\ ~op.first =>
             \/ /\ op.zd.value.month = op.prev_zd.value.month
                /\ op.zd.value.day = op.prev_zd.value.day + 1
             \/ /\ op.zd.value.month = op.prev_zd.value.month + 1
                /\ op.zd.value.day = 1
        /\ op.current + 1 >= op.end => op.zd.value.month = 12

\* the walk has reached the day before the next Aries ingress
C8_Witness ==
    /\ op.name = "walk"
    /\ ~op.first
    /\ op.current + 1 = op.end
    /\ op.zd.ok
    /\ op.zd.value.month = 12
    /\ op.zd.value.day = op.prev_zd.value.day + 1

\* C9: a get for a year that is not persisted runs the oracle for that
\* year and leaves the file holding the computed table under that year and
\* every other year's entries as they were.
C9_MissComputesAndMerges ==
    [][\A y \in CacheYears :
         (op'.name = "get" /\ op'.year = y /\ ~Persisted(cacheFile, y)) =>
            /\ calls'[y] = calls[y] + 1
            /\ cacheFile'.exists
            /\ DOMAIN cacheFile'.data = DOMAIN cacheFile.data \cup {str(y)}
            /\ cacheFile'.data[str(y)] = Serializable(compute_ingresses(shift, y))
            /\ \A k \in DOMAIN cacheFile.data : cacheFile'.data[k] = cacheFile.data[k]
      ]_vars

\* a get has computed a year while another year was already in the file
C9_Witness ==
    /\ op.name = "get"
    /\ op.miss
    /\ Persisted(cacheFile, op.year)
    /\ Cardinality(DOMAIN cacheFile.data) >= 2

\* C10: once a year is persisted it stays persisted, the oracle is not run
\* for it again, and a get for it returns the persisted table and leaves
\* the file as it is.
C10_HitServedFromFile ==
    [][/\ \A y \in CacheYears :
            Persisted(cacheFile, y) =>
                /\ Persisted(cacheFile', y)
                /\ calls'[y] = calls[y]
       /\ (op'.name = "get" /\ Persisted(cacheFile, op'.year)) =>
                /\ cacheFile' = cacheFile
                /\ op'.value = WithDatetime(cacheFile.data[str(op'.year)])
      ]_vars

\* a get has been served from the file without running the oracle
C10_Witness ==
    /\ op.name = "get"
    /\ ~op.miss
    /\ Persisted(cacheFile, op.year)
    /\ calls[op.year] = 1

\* C11: after the bulk run over start..end the file holds a table for every
\* year of the range, and every year that was in the file before the run
\* and lies outside the range is still there with the same entries.
C11_BulkKeepsOtherYears ==
    (op.name = "generate" /\ op.start <= op.end) =>
        /\ \A y \in op.start .. op.end :
              /\ Persisted(cacheFile, y)
              /\ cacheFile.data[str(y)] = Serializable(compute_ingresses(shift, y))
        /\ \A y \in CacheYears :
              (Persisted(op.before, y) /\ y \notin op.start .. op.end) =>
                  /\ Persisted(cacheFile, y)
                  /\ cacheFile.data[str(y)] = op.before.data[str(y)]

\* the position in `found` of the first transition into Aries (0 if none)
FirstAries(found) ==
    IF \E a \in 1..Len(found) : found[a].sign = 0
    THEN CHOOSE a \in 1..Len(found) :
            found[a].sign = 0 /\ \A j \in 1..(a - 1) : found[j].sign # 0
    ELSE 0

\* C13: compute_ingresses drops the transitions before the first one into
\* sign 0 and returns the next 12, signs 0..11 in order with ascending
\* instants and longitude 30 * sign; the Pisces transition before the first
\* Aries and the Aries of the following year are not returned.
C13_TwelveFromFirstAries ==
    op.name = "compute" =>
        LET a == FirstAries(op.found)
        IN  /\ a >= 1
            /\ Len(op.value) = 12
            /\ \A i \in 1..12 :
                  /\ op.value[i].sign_index = i - 1
                  /\ op.value[i].longitude = 30 * (i - 1)
                  /\ op.value[i].utc_datetime = op.found[a + i - 1].t
                  /\ op.value[i].utc_iso = isoformat(op.found[a + i - 1].t)
            /\ \A i \in 1..11 :
                  MinutesOf(op.value[i].utc_datetime)
                      < MinutesOf(op.value[i + 1].utc_datetime)
            /\ \A j \in 1..Len(op.found) :
                  (j < a \/ j >= a + 12) =>
                      \A i \in 1..12 : op.value[i].utc_datetime # op.found[j].t

\* the search found a Pisces transition before the first Aries and the
\* Aries of the following year after the twelve returned
C13_Witness ==
    /\ op.name = "compute"
    /\ FirstAries(op.found) = 2
    /\ op.found[1].sign = 11
    /\ Len(op.found) = 14
    /\ op.found[14].sign = 0
    /\ Len(op.value) = 12
    /\ op.value[1].utc_datetime = op.found[2].t
    /\ op.value[12].utc_datetime = op.found[13].t

\* C12: no call returns a table of fewer than 12 entries and no year is
\* persisted with fewer than 12 entries, whatever the search found: a search
\* with fewer than 12 transitions from the first Aries ends in an error.
C12_ShortSearchIsAnError ==
    /\ op.name = "compute" => Len(op.value) = 12
    /\ op.name = "get" => Len(op.value) = 12
    /\ op.name = "year" => Len(op.ingresses) = 12
    /\ \A y \in CacheYears :
          Persisted(cacheFile, y) => Len(cacheFile.data[str(y)]) = 12

\* both processes of a race have returned, for two different years that
\* were both absent from the file when the race began
RaceOfTwoMissesDone ==
    /\ op.name = "race"
    /\ \A p \in Procs : op.procs[p].pc = "done"
    /\ op.procs[1].year # op.procs[2].year
    /\ op.before.json \/ ~op.before.exists
    /\ \A p \in Procs : ~Persisted(op.before, op.procs[p].year)

\* C14: two processes get two different absent years and both return.  Each
\* took three steps (load, open, dump), so the first two steps of the log
\* are by different processes exactly when both loaded before either began
\* to save.  The year of the last writer is always persisted.  When both
\* loaded before either saved, the other year is lost; when one call ran
\* wholly before the other, both years are persisted.  Both callers get
\* their twelve entries either way.
C14_LostUpdate ==
    RaceOfTwoMissesDone =>
        /\ Len(op.log) = 6
        /\ cacheFile.json
        /\ LET last  == op.log[6]
               other == 3 - op.log[6]
           IN  /\ Persisted(cacheFile, op.procs[last].year)
               /\ cacheFile.data[str(op.procs[last].year)]
                      = Serializable(op.procs[last].value)
               /\ op.log[1] # op.log[2] =>
                      /\ ~Persisted(cacheFile, op.procs[other].year)
                      /\ cacheFile.data
                            = DictSet(op.before.data, str(op.procs[last].year),
                                      Serializable(op.procs[last].value))
               /\ op.log[1] = op.log[2] =>
                      /\ op.log = <<other, other, other, last, last, last>>
                      /\ Persisted(cacheFile, op.procs[other].year)
                      /\ cacheFile.data[str(op.procs[other].year)]
                            = Serializable(op.procs[other].value)
        /\ \A p \in Procs :
              op.procs[p].value = compute_ingresses(shift, op.procs[p].year)

\* both loaded, then both saved: the first writer's year is gone
C14_Witness ==
    /\ RaceOfTwoMissesDone
    /\ op.log[1] # op.log[2]
    /\ Persisted(cacheFile, op.procs[op.log[6]].year)
    /\ ~Persisted(cacheFile, op.procs[3 - op.log[6]].year)
    /\ calls[op.procs[3 - op.log[6]].year] >= 1

\* the calendar date of the ingress into sign number `month` of zodiac year
\* `year`, read off the ephemeris
IngressDate(sh, year, month) ==
    DateOfDt(DtOfMinutes(IngressInstant(sh, (year - 2026) * 12 + (month - 1))))

\* C15: for a Gregorian date g whose year and the year before have their
\* Aries ingress inside the Gregorian year of the same number,
\* gregorian_to_zodiac answers year g.year when g is on or after the Aries
\* ingress date of g.year and g.year - 1 otherwise, never raises the range
\* error, and the month it answers is the last one of that year whose
\* ingress date is <= g.
C15_GoverningYear ==
    (/\ op.name = "g2z2g"
     /\ \A y \in {YearOf(op.greg) - 1, YearOf(op.greg)} :
           YearOf(IngressDate(shift, y, 1)) = y) =>
        /\ op.zd.ok
        /\ op.zd.value.year = IF op.greg >= IngressDate(shift, YearOf(op.greg), 1)
                              THEN YearOf(op.greg) ELSE YearOf(op.greg) - 1
        /\ op.zd.value.month \in 1..12
        /\ IngressDate(shift, op.zd.value.year, op.zd.value.month) <= op.greg
        /\ op.zd.value.month < 12 =>
              op.greg < IngressDate(shift, op.zd.value.year, op.zd.value.month + 1)

\* the day before the Aries ingress date of its Gregorian year was governed
\* by the previous year, whose Pisces ingress date the search found
C15_Witness ==
    /\ op.name = "g2z2g"
    /\ op.greg = IngressDate(shift, YearOf(op.greg), 1) - 1
    /\ YearOf(IngressDate(shift, YearOf(op.greg) - 1, 1)) = YearOf(op.greg) - 1
    /\ op.zd.ok
    /\ op.zd.value.year = YearOf(op.greg) - 1
    /\ IngressDate(shift, op.zd.value.year, 12) <= op.greg

====
